---- MODULE Spec2Model ----
(***************************************************************************)
(* html_reporter: the result collector (html_reporter/result.py) and the   *)
(* report aggregator (html_reporter/runner.py), driven by the callbacks    *)
(* the unittest framework issues.                                          *)
(*                                                                         *)
(* Texts are TLA+ strings, concatenated with \o as Python concatenates     *)
(* str.  Python's None is the model value None.  Every handler of the      *)
(* collector is an operator from the state record St to a record           *)
(* [s |-> state after, raised |-> an exception left the handler]; the      *)
(* actions apply the handlers to the current state.                        *)
(*                                                                         *)
(* The framework: it starts a test only when no test is running and ends   *)
(* it with stopTest; between the two it issues zero, one or several        *)
(* completion signals for that test (none for an expected failure, two     *)
(* for a failing body followed by a raising tearDown); outside a test it   *)
(* issues addError and addSkip for class and module level fixtures.  An    *)
(* exception that leaves a callback leaves run() and ends the run.         *)
(*                                                                         *)
(* startTest binds outputBuffer and both redirectors' fp to one new        *)
(* StringIO, so a single live buffer is modelled: bufferValue is its       *)
(* text, and the name StringIO stands for the reference to it.             *)
(* html_reporter/redirector.py is not among the sources: Target and Write  *)
(* follow the specification of the Output Redirector (write forwards to    *)
(* the bound fp).                                                          *)
(***************************************************************************)
EXTENDS Integers, Sequences, FiniteSets, TLC

(* ---------------------------- bounds ----------------------------------- *)
MaxCalls == 4          \* startTest and completion signals per run
MaxOut == 1            \* writes of the test code per capture window

(* ------------------------- the environment ----------------------------- *)
None == "None"

\* enum TestStatus
PASS == 1
FAIL == 2
ERROR == 3
SKIP == 4
TestStatus == {PASS, FAIL, ERROR, SKIP}

\* the test objects the framework hands to the callbacks, and what the
\* collector and the aggregator read from them
Tests == {"t1", "t2"}
TestClass(test) == IF test = "t1" THEN "A" ELSE "B"
TestId(test) == IF test = "t1" THEN <<"__main__", "A", "test_a">>
                ELSE <<"pkg", "B", "test_b">>
ShortDescription(test) == IF test = "t1" THEN None ELSE "checks b"
ClsModule(cls) == IF cls = "A" THEN "__main__" ELSE "pkg"
ClsName(cls) == cls
\* __doc__ as its lines (split on "\n"), None without a docstring
ClsDoc(cls) == IF cls = "A" THEN None ELSE <<"B tests", "more">>

Texts == {"a"}         \* what test code writes
ExcTexts == {"x", "y"} \* what _exc_info_to_string formats
\* the formatted traceback is that of the test it was raised in
ExcTextsOf(test) == IF test = "t1" THEN {"x"} ELSE {"y"}
Reasons == {"r"}       \* skip reasons

\* the stream objects: the two real streams and the two module singletons
RealStreams == {"real_stdout", "real_stderr"}
Redirectors == {"stdout_redirector", "stderr_redirector"}
Streams == RealStreams \cup Redirectors
StringIO == "StringIO"

(* ----------------------------- state ----------------------------------- *)
VARIABLES
    sys_stdout, sys_stderr,     \* sys.stdout, sys.stderr
    stdout_fp, stderr_fp,       \* stdout_redirector.fp, stderr_redirector.fp
    real_stderr,                \* the last text written to the real stderr
    outputBuffer,               \* self.outputBuffer: None or the live StringIO
    bufferValue,                \* getvalue() of the live StringIO
    stdout0, stderr0,           \* self.stdout0, self.stderr0
    pass_count, fail_count, error_count, skip_count,
    show_all,                   \* self.show_all
    result,                     \* self.result
    testsRun, errors, failures, \* TestResult's own fields
    running,                    \* the test the framework is running, or None
    phase,                      \* where run() is, see Phases
    test_groups,                \* what generate_report_table returned
    template,                   \* self.template of the runner
    report_file,                \* the file at report_filepath: None or its text
    written,                    \* history: text written since startTest
    windowStart                 \* history: len(result) at the last startTest

collector == <<outputBuffer, bufferValue, stdout0, stderr0, pass_count,
               fail_count, error_count, skip_count, show_all, result,
               testsRun, errors, failures>>
streams == <<sys_stdout, sys_stderr, stdout_fp, stderr_fp, real_stderr>>
report == <<test_groups, template, report_file>>
vars == <<collector, streams, running, phase, report, written, windowStart>>

\* run(): in test(result); an exception left a callback; Template() or
\* render raised; open() or write raised; run() returned
Phases == {"suite", "raised", "render_raised", "write_raised", "reported"}

\* the collector and the process-wide streams as one record
St == [sys_stdout |-> sys_stdout, sys_stderr |-> sys_stderr,
       stdout_fp |-> stdout_fp, stderr_fp |-> stderr_fp,
       real_stderr |-> real_stderr,
       outputBuffer |-> outputBuffer, bufferValue |-> bufferValue,
       stdout0 |-> stdout0, stderr0 |-> stderr0,
       pass_count |-> pass_count, fail_count |-> fail_count,
       error_count |-> error_count, skip_count |-> skip_count,
       show_all |-> show_all, result |-> result,
       testsRun |-> testsRun, errors |-> errors, failures |-> failures]

Returned(s) == [s |-> s, raised |-> FALSE]
Raised(s) == [s |-> s, raised |-> TRUE]

(* ------------------------ OutputRedirector ----------------------------- *)
\* the object a write to `stream` ends up in: a redirector forwards to its fp
Target(s, stream) ==
    IF stream = "stdout_redirector" THEN s.stdout_fp
    ELSE IF stream = "stderr_redirector" THEN s.stderr_fp
    ELSE stream

\* stream.write(text)
Write(s, stream, text) ==
    LET target == Target(s, stream) IN
    IF target = StringIO THEN [s EXCEPT !.bufferValue = @ \o text]
    ELSE IF target = "real_stderr" THEN [s EXCEPT !.real_stderr = text]
    ELSE s

(* ------------------------- HTMLTestResult ------------------------------ *)
\* truth value of a stream reference: None is false, a stream object true
Truthy(x) == x # None

TestCaseResult(status, test, output, error) ==
    [status |-> status, test_case |-> test, output |-> output, error |-> error]

\* str(test) of a unittest.TestCase: "method (module.Class)"
Str(test) == TestId(test)[3] \o " (" \o TestId(test)[1] \o "." \o TestId(test)[2] \o ")"

\* self.descriptions is None (runner.py builds HTMLTestResult(verbosity=...))
get_description(test) == Str(test)

startTest(s, test) ==
    LET s1 == [s EXCEPT !.testsRun = @ + 1]
        s2 == IF s1.show_all
              THEN Write(Write(s1, s1.sys_stderr, get_description(test)),
                         s1.sys_stderr, " ... ")
              ELSE s1
    IN Returned([s2 EXCEPT !.outputBuffer = StringIO,
                           !.bufferValue = "",
                           !.stdout_fp = StringIO,
                           !.stderr_fp = StringIO,
                           !.stdout0 = s2.sys_stdout,
                           !.stderr0 = s2.sys_stderr,
                           !.sys_stdout = "stdout_redirector",
                           !.sys_stderr = "stderr_redirector"])

\* complete_output without its guard: restores from stdout0 on every call
complete_output_unguarded(s) ==
    LET s1 == [s EXCEPT !.sys_stdout = s.stdout0,
                        !.sys_stderr = s.stderr0,
                        !.stdout0 = None,
                        !.stderr0 = None]
    IN IF s1.outputBuffer = None
       THEN [s |-> s1, raised |-> TRUE, ret |-> None]
       ELSE [s |-> s1, raised |-> FALSE, ret |-> s1.bufferValue]

\* returns [s, raised, ret]: ret is the text returned
complete_output(s) ==
    LET s1 == IF Truthy(s.stdout0)
              THEN [s EXCEPT !.sys_stdout = s.stdout0,
                             !.sys_stderr = s.stderr0,
                             !.stdout0 = None,
                             !.stderr0 = None]
              ELSE s
    IN IF s1.outputBuffer = None
       THEN [s |-> s1, raised |-> TRUE, ret |-> None]   \* AttributeError
       ELSE [s |-> s1, raised |-> FALSE, ret |-> s1.bufferValue]

\* stopTest that leaves the restoration to the completion callbacks
stopTest_noRestore(s, test) == Returned(s)

stopTest(s, test) ==
    LET c == complete_output(s) IN [s |-> c.s, raised |-> c.raised]

\* the tail of a completion callback that echoes before it restores
Record_echoFirst(s, status, test, error, verbose, terse) ==
    LET e == Write(s, s.sys_stderr, IF s.show_all THEN verbose ELSE terse)
        c == complete_output(e)
    IN IF c.raised THEN Raised(c.s)
       ELSE Returned([c.s EXCEPT !.result =
                        Append(@, TestCaseResult(status, test, c.ret, error))])

\* the common tail of the four completion callbacks
Record(s, status, test, error, verbose, terse) ==
    LET c == complete_output(s) IN
    IF c.raised THEN Raised(c.s)
    ELSE LET s1 == [c.s EXCEPT !.result =
                        Append(@, TestCaseResult(status, test, c.ret, error))]
         IN Returned(Write(s1, s1.sys_stderr,
                           IF s1.show_all THEN verbose ELSE terse))

addSuccess(s, test) ==
    Record([s EXCEPT !.pass_count = @ + 1], PASS, test, "", "ok\n", ".")

\* addError reading the first entry of self.errors instead of the last
addError_firstError(s, test, err) ==
    LET s1 == [s EXCEPT !.error_count = @ + 1,
                        !.errors = Append(@, <<test, err>>)]
        exc_str == s1.errors[1][2]
    IN Record(s1, ERROR, test, exc_str, "ERROR\n", "E")

addError(s, test, err) ==
    LET s1 == [s EXCEPT !.error_count = @ + 1,
                        !.errors = Append(@, <<test, err>>)]
        exc_str == s1.errors[Len(s1.errors)][2]
    IN Record(s1, ERROR, test, exc_str, "ERROR\n", "E")

addFailure(s, test, err) ==
    LET s1 == [s EXCEPT !.fail_count = @ + 1,
                        !.failures = Append(@, <<test, err>>)]
        exc_str == s1.failures[Len(s1.failures)][2]
    IN Record(s1, FAIL, test, exc_str, "FAIL\n", "F")

addSkip(s, test, reason) ==
    Record([s EXCEPT !.skip_count = @ + 1], SKIP, test, reason,
           "skipped '" \o reason \o "'\n", "S")

total_count(s) == s.pass_count + s.fail_count + s.error_count + s.skip_count

(* --------------------- TestGroupReport, runner ------------------------- *)
TestCaseReport(tid, desc, status, detail) ==
    [tid |-> tid, desc |-> desc, status |-> status, detail |-> detail]

TestGroupReport(cid, desc, num_passes, num_fails, num_errors, num_skipped, test_cases) ==
    [cid |-> cid, desc |-> desc, pass_count |-> num_passes,
     fail_count |-> num_fails, error_count |-> num_errors,
     skip_count |-> num_skipped, test_cases |-> test_cases]

group_total_count(g) ==
    g.pass_count + g.fail_count + g.fail_count + g.skip_count

\* the decimal text of a natural number, as an f-string formats an int
DigitChars == <<"0", "1", "2", "3", "4", "5", "6", "7", "8", "9">>
RECURSIVE str_int(_)
str_int(n) ==
    IF n < 10 THEN DigitChars[n + 1]
    ELSE str_int(n \div 10) \o DigitChars[(n % 10) + 1]

\* the loop of _sort_result with classes.append(cls) outside the `if`
RECURSIVE sort_loop_appendAlways(_, _, _, _)
sort_loop_appendAlways(result_list, i, rmap, classes) ==
    IF i > Len(result_list) THEN [rmap |-> rmap, classes |-> classes]
    ELSE LET test_case_result == result_list[i]
             cls == TestClass(test_case_result.test_case)
             fresh == cls \notin DOMAIN rmap
             rmap1 == IF fresh THEN rmap @@ (cls :> <<>>) ELSE rmap
             rmap2 == [rmap1 EXCEPT ![cls] = Append(@, test_case_result)]
         IN sort_loop_appendAlways(result_list, i + 1, rmap2,
                                   Append(classes, cls))

\* the loop of _sort_result from entry i on: rmap is a function on the
\* classes seen so far, classes lists them in first-seen order
RECURSIVE sort_loop(_, _, _, _)
sort_loop(result_list, i, rmap, classes) ==
    IF i > Len(result_list) THEN [rmap |-> rmap, classes |-> classes]
    ELSE LET test_case_result == result_list[i]
             cls == TestClass(test_case_result.test_case)
             fresh == cls \notin DOMAIN rmap
             rmap1 == IF fresh THEN rmap @@ (cls :> <<>>) ELSE rmap
             classes1 == IF fresh THEN Append(classes, cls) ELSE classes
             rmap2 == [rmap1 EXCEPT ![cls] = Append(@, test_case_result)]
         IN sort_loop(result_list, i + 1, rmap2, classes1)

\* a list of <<cls, cls_results>> pairs
sort_result(result_list) ==
    LET l == sort_loop(result_list, 1, <<>>, <<>>)
    IN [k \in 1..Len(l.classes) |-> <<l.classes[k], l.rmap[l.classes[k]]>>]

\* the report of a test case with the group index left out of the id
generate_test_case_report_noGroup(cid, tid, test_case_result) ==
    LET test_status == test_case_result.status
        test_code == IF test_status = FAIL THEN "f"
                     ELSE IF test_status = ERROR THEN "e"
                     ELSE IF test_status = SKIP THEN "s"
                     ELSE "p"
    IN [tid |-> test_code \o "t" \o str_int(tid + 1), desc |-> "",
        status |-> test_status, detail |-> None]

\* the report of a test case with the 0-based indices used as they come
generate_test_case_report_zeroBased(cid, tid, test_case_result) ==
    LET test_status == test_case_result.status
        test_code == IF test_status = FAIL THEN "f"
                     ELSE IF test_status = ERROR THEN "e"
                     ELSE IF test_status = SKIP THEN "s"
                     ELSE "p"
    IN [tid |-> test_code \o "t" \o str_int(cid) \o "." \o str_int(tid),
        desc |-> "", status |-> test_status, detail |-> None]

\* the report of a test case with `and` for `or` in the test for a detail
generate_test_case_report_detailAnd(cid, tid, test_case_result) ==
    LET test_status == test_case_result.status
        test_output == test_case_result.output
        test_error == test_case_result.error
        test_code == IF test_status = FAIL THEN "f"
                     ELSE IF test_status = ERROR THEN "e"
                     ELSE IF test_status = SKIP THEN "s"
                     ELSE "p"
        test_case_id == test_code \o "t" \o str_int(cid + 1)
                        \o "." \o str_int(tid + 1)
        detail == IF test_output # "" /\ test_error # ""
                  THEN test_case_id \o ": " \o test_output \o test_error
                  ELSE None
    IN [tid |-> test_case_id, desc |-> "", status |-> test_status,
        detail |-> detail]

\* cid and tid are the 0-based indices enumerate() yields
generate_test_case_report(cid, tid, test_case_result) ==
    LET test_status == test_case_result.status
        test_case == test_case_result.test_case
        test_output == test_case_result.output
        test_error == test_case_result.error
        test_code == IF test_status = FAIL THEN "f"
                     ELSE IF test_status = ERROR THEN "e"
                     ELSE IF test_status = SKIP THEN "s"
                     ELSE "p"
        test_case_id == test_code \o "t" \o str_int(cid + 1)
                        \o "." \o str_int(tid + 1)
        name == TestId(test_case)[Len(TestId(test_case))]
        doc == IF ShortDescription(test_case) = None THEN ""
               ELSE ShortDescription(test_case)
        desc == IF doc # "" THEN name \o ": " \o doc ELSE name
        detail == IF test_output # "" \/ test_error # ""
                  THEN test_case_id \o ": " \o test_output \o test_error
                  ELSE None
    IN TestCaseReport(test_case_id, desc, test_status, detail)

\* the subtotal loop counting an ERROR as a FAIL as well
num_of_errorAsFail(cls_results, status) ==
    Cardinality({k \in 1..Len(cls_results) :
                    \/ cls_results[k].status = status
                    \/ status = FAIL /\ cls_results[k].status = ERROR})

\* the subtotal loop of generate_report_table for one status
num_of(cls_results, status) ==
    Cardinality({k \in 1..Len(cls_results) : cls_results[k].status = status})

group_desc(cls) ==
    LET name == IF ClsModule(cls) = "__main__" THEN ClsName(cls)
                ELSE ClsModule(cls) \o "." \o ClsName(cls)
        doc == IF ClsDoc(cls) = None THEN "" ELSE ClsDoc(cls)[1]
    IN IF doc # "" THEN name \o ": " \o doc ELSE name

generate_report_table(result_list) ==
    LET sorted_result == sort_result(result_list) IN
    [g \in 1..Len(sorted_result) |->
        LET cid == g - 1
            cls == sorted_result[g][1]
            cls_results == sorted_result[g][2]
        IN TestGroupReport(
             "c" \o str_int(cid + 1),
             group_desc(cls),
             num_of(cls_results, PASS),
             num_of(cls_results, FAIL),
             num_of(cls_results, ERROR),
             num_of(cls_results, SKIP),
             [j \in 1..Len(cls_results) |->
                 generate_test_case_report(cid, j - 1, cls_results[j])])]

\* the template files: the packaged default, and the text the file named
\* by self.template holds (Unreadable: open() raises)
DEFAULT_TEMPLATE == "templates/report_template.html"
DefaultTemplateText == "default template"
Unreadable == "unreadable"
Malformed == "{% malformed"
TemplateFiles == {Unreadable, "", "custom template", Malformed}
Templates == {None, "custom.html"}
\* no file is read when no template is named
TemplateFilesOf(tpl) == IF tpl = None THEN {""} ELSE TemplateFiles

\* open(path, "r").read(): [raised, ret]
read_file(path, custom) ==
    IF path = DEFAULT_TEMPLATE
    THEN [raised |-> FALSE, ret |-> DefaultTemplateText]
    ELSE IF custom = Unreadable THEN [raised |-> TRUE, ret |-> None]
    ELSE [raised |-> FALSE, ret |-> custom]

\* _load_template whose except clause re-raises and whose finally clause
\* does not read the default
load_template_noFallback(tpl, custom) ==
    IF tpl # None /\ tpl # "" THEN read_file(tpl, custom)
    ELSE read_file(DEFAULT_TEMPLATE, custom)

\* _load_template: [raised, ret].  The except clause prints a diagnostic and
\* goes on; the finally clause reads the default when file is None or ""
\* and returns
load_template(tpl, custom) ==
    LET given == IF tpl # None /\ tpl # "" THEN read_file(tpl, custom)
                 ELSE [raised |-> FALSE, ret |-> None]
        file == IF given.raised THEN None ELSE given.ret
        default == read_file(DEFAULT_TEMPLATE, custom)
    IN IF file = None \/ file = ""
       THEN IF default.raised THEN [raised |-> TRUE, ret |-> None]
            ELSE [raised |-> FALSE, ret |-> default.ret]
       ELSE [raised |-> FALSE, ret |-> file]

\* _render_html: [raised, ret]; the rendered document is modelled by the
\* template text it was rendered from (the values are in test_groups)
render_html(tpl, custom) ==
    LET template_file == load_template(tpl, custom) IN
    IF template_file.raised THEN [raised |-> TRUE, ret |-> None]
    ELSE IF template_file.ret # ""
         THEN IF template_file.ret = Malformed
              THEN [raised |-> TRUE, ret |-> None]      \* TemplateSyntaxError
              ELSE [raised |-> FALSE, ret |-> template_file.ret]
         ELSE [raised |-> FALSE, ret |-> None]

\* generate_report that renders the document and never writes it
generate_report_noWrite(tpl, custom, writable) ==
    LET output == render_html(tpl, custom) IN
    IF output.raised THEN [phase |-> "render_raised", file |-> None]
    ELSE [phase |-> "reported", file |-> None]

\* generate_report after generate_report_table: [phase after, file written
\* or None].  open(path, "w+") truncates the file before write() runs
generate_report(tpl, custom, writable) ==
    LET output == render_html(tpl, custom) IN
    IF output.raised THEN [phase |-> "render_raised", file |-> None]
    ELSE IF ~writable THEN [phase |-> "write_raised", file |-> None]
    ELSE IF output.ret = None THEN [phase |-> "write_raised", file |-> ""]
    ELSE [phase |-> "reported", file |-> output.ret]

\* f"\nTime Elapsed: {self.stop_time - self.start_time}\n"
ElapsedLine == "\nTime Elapsed: 0:00:00\n"

(* ------------------------------ actions -------------------------------- *)
\* a fresh collector, and a runner that has not run yet
Constructed ==
    /\ sys_stdout = "real_stdout"
    /\ sys_stderr = "real_stderr"
    /\ stdout_fp = "real_stdout"
    /\ stderr_fp = "real_stderr"
    /\ real_stderr = ""
    /\ outputBuffer = None
    /\ bufferValue = ""
    /\ stdout0 = None
    /\ stderr0 = None
    /\ pass_count = 0
    /\ fail_count = 0
    /\ error_count = 0
    /\ skip_count = 0
    /\ show_all \in BOOLEAN
    /\ result = <<>>
    /\ testsRun = 0
    /\ errors = <<>>
    /\ failures = <<>>
    /\ running = None
    /\ phase = "suite"
    /\ test_groups = <<>>
    /\ report_file = None
    /\ written = ""
    /\ windowStart = 0

\* HTMLTestRunner(report_filepath=...): template keeps its default, None
Init ==
    /\ Constructed
    /\ template = None

\* HTMLTestRunner(report_filepath=..., template=...)
InitTemplate ==
    /\ Constructed
    /\ template \in Templates

\* the state after a handler: an exception leaves run() (its finally clause
\* does nothing), so the run ends there
AssignState(s) ==
    /\ sys_stdout' = s.sys_stdout
    /\ sys_stderr' = s.sys_stderr
    /\ stdout_fp' = s.stdout_fp
    /\ stderr_fp' = s.stderr_fp
    /\ real_stderr' = s.real_stderr
    /\ outputBuffer' = s.outputBuffer
    /\ bufferValue' = s.bufferValue
    /\ stdout0' = s.stdout0
    /\ stderr0' = s.stderr0
    /\ pass_count' = s.pass_count
    /\ fail_count' = s.fail_count
    /\ error_count' = s.error_count
    /\ skip_count' = s.skip_count
    /\ show_all' = s.show_all
    /\ result' = s.result
    /\ testsRun' = s.testsRun
    /\ errors' = s.errors
    /\ failures' = s.failures

Assign(r) ==
    /\ AssignState(r.s)
    /\ phase' = IF r.raised THEN "raised" ELSE phase

\* a completion callback has run
Completed(r) ==
    /\ Assign(r)
    /\ UNCHANGED <<running, report, written, windowStart>>

\* the framework starts a test; it never starts one inside another
StartTest(test) ==
    /\ phase = "suite"
    /\ running = None
    /\ testsRun + Len(result) < MaxCalls
    /\ Assign(startTest(St, test))
    /\ running' = test
    /\ written' = ""
    /\ windowStart' = Len(result)
    /\ UNCHANGED report

\* code running between startTest and stopTest writes to sys.stdout, to
\* sys.stderr or to one of the redirector singletons
WriteOutput(stream, text) ==
    /\ phase = "suite"
    /\ running # None
    /\ Len(written) < MaxOut
    /\ Assign(Returned(Write(St, stream, text)))
    /\ written' = written \o text
    /\ UNCHANGED <<running, report, windowStart>>

\* a completion signal inside a test's window is for that test; outside a
\* window the framework signals class and module level errors and skips
Signalled(test) ==
    /\ phase = "suite"
    /\ testsRun + Len(result) < MaxCalls
    /\ running # None => test = running

AddSuccess(test) ==
    /\ Signalled(test)
    /\ running # None
    /\ Completed(addSuccess(St, test))

AddError(test, err) ==
    /\ Signalled(test)
    /\ Completed(addError(St, test, err))

AddFailure(test, err) ==
    /\ Signalled(test)
    /\ running # None
    /\ Completed(addFailure(St, test, err))

AddSkip(test, reason) ==
    /\ Signalled(test)
    /\ Completed(addSkip(St, test, reason))

StopTest ==
    /\ phase = "suite"
    /\ running # None
    /\ Assign(stopTest(St, running))
    /\ running' = None
    /\ windowStart' = 0
    /\ UNCHANGED <<report, written>>

\* run() once test(result) has returned: generate_report, then the elapsed
\* time line.  custom is what the file at self.template holds when it is
\* read, writable whether report_filepath can be opened for writing.
\* open_in_browser keeps its default, False.
RenderAndWrite(custom, writable) ==
    LET g == generate_report(template, custom, writable) IN
    /\ report_file' = IF g.file = None THEN report_file ELSE g.file
    /\ phase' = g.phase
    /\ AssignState(IF g.phase = "reported"
                   THEN Write(St, sys_stderr, ElapsedLine)
                   ELSE St)

GenerateReport ==
    /\ phase = "suite"
    /\ running = None
    /\ test_groups' = generate_report_table(result)
    /\ \E custom \in TemplateFilesOf(template), writable \in BOOLEAN :
          RenderAndWrite(custom, writable)
    /\ UNCHANGED <<template, running, written, windowStart>>

Next ==
    \/ \E test \in Tests : StartTest(test)
    \/ \E stream \in {sys_stdout, sys_stderr} \cup Redirectors, text \in Texts :
          WriteOutput(stream, text)
    \/ \E test \in Tests : AddSuccess(test)
    \/ \E test \in Tests : \E err \in ExcTextsOf(test) : AddError(test, err)
    \/ \E test \in Tests : \E err \in ExcTextsOf(test) : AddFailure(test, err)
    \/ \E test \in Tests, reason \in Reasons : AddSkip(test, reason)
    \/ StopTest
    \/ GenerateReport

Spec == Init /\ [][Next]_vars

SpecTemplate == InitTemplate /\ [][Next]_vars

(* ------------------------------ claims --------------------------------- *)
NumStatus(status) ==
    Cardinality({k \in 1..Len(result) : result[k].status = status})

\* C1: at every point between callbacks, for any sequence of callbacks on a
\* fresh collector, each of the four counters equals the number of entries
\* of result with that status, and total_count() equals len(result).
C1_CountersMatchResult ==
    /\ pass_count = NumStatus(PASS)
    /\ fail_count = NumStatus(FAIL)
    /\ error_count = NumStatus(ERROR)
    /\ skip_count = NumStatus(SKIP)
    /\ total_count(St) = Len(result)

\* C2: at the end of a run total_count() equals len(result) and both equal
\* testsRun, the number of tests the framework started.
C2_TotalEqualsTestsRun ==
    phase = "reported" =>
        /\ total_count(St) = Len(result)
        /\ Len(result) = testsRun

\* C3: whenever no test is running, sys.stdout and sys.stderr are the real
\* streams, whatever signal (or none) the last test ended with.
C3_StreamsRestoredWhenIdle ==
    running = None =>
        /\ sys_stdout = "real_stdout"
        /\ sys_stderr = "real_stderr"

\* a test that wrote output has ended without any completion signal
C3_Witness ==
    /\ running = None
    /\ testsRun > 0
    /\ result = <<>>
    /\ written # ""
    /\ phase = "suite"

C5_OutputIsWindowText ==
    [][(running # None /\ Len(result') = Len(result) + 1) =>
          result'[Len(result')].output = written]_vars

\* C6: _sort_result is a stable partition by class: each group is the
\* sub-list of the input with the group's class, in input order; no group
\* is empty and no two groups share a class; every outcome's class has a
\* group; groups come in the order their classes first appear.
ClassOfResult(r) == TestClass(r.test_case)
FirstSeen(cls) ==
    CHOOSE k \in 1..Len(result) :
        /\ ClassOfResult(result[k]) = cls
        /\ \A j \in 1..(k - 1) : ClassOfResult(result[j]) # cls
RECURSIVE SumLen(_, _)
SumLen(groups, k) ==
    IF k = 0 THEN 0 ELSE Len(groups[k][2]) + SumLen(groups, k - 1)
C6_SortIsStablePartition ==
    LET groups == sort_result(result) IN
    /\ \A k \in 1..Len(groups) :
         /\ groups[k][2] # <<>>
         /\ groups[k][2] =
              SelectSeq(result, LAMBDA r : ClassOfResult(r) = groups[k][1])
    /\ \A k, l \in 1..Len(groups) : k # l => groups[k][1] # groups[l][1]
    /\ \A k \in 1..Len(result) :
         \E g \in 1..Len(groups) : groups[g][1] = ClassOfResult(result[k])
    /\ SumLen(groups, Len(groups)) = Len(result)
    /\ \A k, l \in 1..Len(groups) :
         k < l => FirstSeen(groups[k][1]) < FirstSeen(groups[l][1])
    /\ phase = "reported" => Len(test_groups) = Len(groups)

\* a report was built from outcomes of classes A, B, A in that order
C6_Witness ==
    /\ phase = "reported"
    /\ Len(result) = 3
    /\ ClassOfResult(result[1]) = "A"
    /\ ClassOfResult(result[2]) = "B"
    /\ ClassOfResult(result[3]) = "A"
    /\ Len(test_groups) = 2

\* C7: in the report of a run, the per-group subtotals add up to the
\* collector's counters, status by status.
RECURSIVE SumField(_, _, _)
SumField(groups, field, k) ==
    IF k = 0 THEN 0 ELSE groups[k][field] + SumField(groups, field, k - 1)
C7_SubtotalsPartitionCounts ==
    phase = "reported" =>
        /\ SumField(test_groups, "pass_count", Len(test_groups)) = pass_count
        /\ SumField(test_groups, "fail_count", Len(test_groups)) = fail_count
        /\ SumField(test_groups, "error_count", Len(test_groups)) = error_count
        /\ SumField(test_groups, "skip_count", Len(test_groups)) = skip_count

\* a report of two groups holding a failure and an error
C7_Witness ==
    /\ phase = "reported"
    /\ Len(test_groups) = 2
    /\ fail_count > 0
    /\ error_count > 0

\* C8: the total of a group is pass + fail + error + skip and equals the
\* number of test cases of the group.
C8_GroupTotalIsSum ==
    \A g \in 1..Len(test_groups) :
        /\ group_total_count(test_groups[g]) =
             test_groups[g].pass_count + test_groups[g].fail_count
             + test_groups[g].error_count + test_groups[g].skip_count
        /\ group_total_count(test_groups[g]) = Len(test_groups[g].test_cases)

\* C9: no two test entries of a report share a display id, across groups.
Entries ==
    UNION {{<<g, j>> : j \in 1..Len(test_groups[g].test_cases)} :
              g \in 1..Len(test_groups)}
\* indices enumerate() yields in runs larger than the ones explored here;
\* the ids for them are built from the first outcome of the run
IndexSamples == {0, 10}
C9_DisplayIdsUnique ==
    phase = "reported" =>
        /\ \A e, f \in Entries :
              e # f => test_groups[e[1]].test_cases[e[2]].tid
                       # test_groups[f[1]].test_cases[f[2]].tid
        /\ \A k \in {1} \cap DOMAIN result :
              \A e, f \in IndexSamples \X IndexSamples :
                e # f => generate_test_case_report(e[1], e[2], result[k]).tid
                         # generate_test_case_report(f[1], f[2], result[k]).tid

\* a report with two groups, one of them with two entries
C9_Witness ==
    /\ phase = "reported"
    /\ Len(test_groups) = 2
    /\ Cardinality(Entries) = 3

\* C10: the display id of the j-th outcome of the i-th group is the letter
\* of that outcome's status, "t", i, ".", j (i and j 1-based, in decimal).
StatusLetter(status) ==
    CASE status = PASS -> "p"
      [] status = FAIL -> "f"
      [] status = ERROR -> "e"
      [] status = SKIP -> "s"
C10_DisplayIdFormat ==
    phase = "reported" =>
        LET groups == sort_result(result) IN
        /\ \A i \in 1..Len(groups) : \A j \in 1..Len(groups[i][2]) :
              /\ test_groups[i].test_cases[j].status = groups[i][2][j].status
              /\ test_groups[i].test_cases[j].tid =
                   StatusLetter(groups[i][2][j].status) \o "t" \o ToString(i)
                   \o "." \o ToString(j)
        /\ \A k \in {1} \cap DOMAIN result : \A i, j \in IndexSamples :
              generate_test_case_report(i, j, result[k]).tid =
                StatusLetter(result[k].status) \o "t" \o ToString(i + 1)
                \o "." \o ToString(j + 1)

\* one erroring test gives et1.1; a later pass of another class gives pt2.1
C10_Witness ==
    /\ phase = "reported"
    /\ Len(test_groups) = 2
    /\ test_groups[1].test_cases[1].tid = "et1.1"
    /\ test_groups[2].test_cases[1].tid = "pt2.1"

\* C11: the detail of a test entry is None exactly when the outcome's
\* output and error are both empty; otherwise it is the display id, ": ",
\* the output and the error, the last two with nothing between them.
C11_DetailText ==
    phase = "reported" =>
        LET groups == sort_result(result) IN
        \A i \in 1..Len(groups) : \A j \in 1..Len(groups[i][2]) :
            LET outcome == groups[i][2][j]
                entry == test_groups[i].test_cases[j]
            IN /\ (entry.detail = None) <=>
                    (outcome.output = "" /\ outcome.error = "")
               /\ entry.detail # None =>
                    entry.detail = entry.tid \o ": " \o outcome.output
                                   \o outcome.error

\* a failure with captured output, and a silent pass in another group
C11_Witness ==
    /\ phase = "reported"
    /\ Len(test_groups) = 2
    /\ test_groups[1].test_cases[1].detail = "ft1.1: ax"
    /\ test_groups[2].test_cases[1].detail = None

\* C12: the error of a recorded outcome is "" for PASS, the reason passed
\* with the signal for SKIP, and for FAIL and ERROR the exception text the
\* framework formatted for that test and that signal.
LastOf(seq) == seq[Len(seq)]
C12_ErrorMatchesSignal ==
    [][/\ \A test \in Tests :
            (AddSuccess(test) /\ phase' = "suite") =>
                /\ LastOf(result').status = PASS
                /\ LastOf(result').test_case = test
                /\ LastOf(result').error = ""
       /\ \A test \in Tests, err \in ExcTexts :
            (AddError(test, err) /\ phase' = "suite") =>
                /\ LastOf(result').status = ERROR
                /\ LastOf(result').test_case = test
                /\ LastOf(result').error = err
       /\ \A test \in Tests, err \in ExcTexts :
            (AddFailure(test, err) /\ phase' = "suite") =>
                /\ LastOf(result').status = FAIL
                /\ LastOf(result').test_case = test
                /\ LastOf(result').error = err
       /\ \A test \in Tests, reason \in Reasons :
            (AddSkip(test, reason) /\ phase' = "suite") =>
                /\ LastOf(result').status = SKIP
                /\ LastOf(result').test_case = test
                /\ LastOf(result').error = reason]_vars

\* a second error was recorded after a first one with another text
C12_Witness ==
    /\ Len(result) = 2
    /\ Len(errors) = 2
    /\ errors[1][2] = "x"
    /\ errors[2][2] = "y"
    /\ result[1].error = "x"
    /\ result[2].error = "y"
    /\ result[2].status = ERROR

\* C13: once test(result) has returned, run() writes the elapsed-time line to
\* the error stream on every path out of run(), the paths where
\* generate_report raises included.
C13_ElapsedLineAlways ==
    phase \in {"render_raised", "write_raised", "reported"} =>
        real_stderr = ElapsedLine

\* the fallback case of _load_template: no path, an unreadable or empty file
UsesDefault(tpl, custom) == tpl = None \/ custom \in {Unreadable, ""}

\* C14: when no template path is given, or the given path cannot be read or
\* is empty, _load_template returns the built-in default template, nothing
\* propagates out of the rendering, and a writable report holds the default.
\* The steps that leave phase "suite" for a phase other than "raised" are
\* those of GenerateReport, with the inputs of RenderAndWrite.
C14_TemplateFallback ==
    [][\A custom \in TemplateFiles, writable \in BOOLEAN :
          (/\ phase = "suite" /\ phase' \notin {"suite", "raised"}
           /\ UsesDefault(template, custom)
           /\ RenderAndWrite(custom, writable)) =>
              /\ load_template(template, custom) =
                    [raised |-> FALSE, ret |-> DefaultTemplateText]
              /\ phase' # "render_raised"
              /\ writable => /\ phase' = "reported"
                             /\ report_file' = DefaultTemplateText]_vars

\* a report rendered from the default although a template path was given
C14_Witness ==
    /\ phase = "reported"
    /\ template # None
    /\ report_file = DefaultTemplateText
    /\ Len(test_groups) > 0

\* C15: a run over an empty test collection returns without raising, the four
\* counts and the total are 0, the grouped report has no groups and the
\* report file is written.
C15_EmptyRun ==
    [][\A custom \in TemplateFiles :
          (/\ testsRun = 0 /\ result = <<>>
           /\ GenerateReport /\ RenderAndWrite(custom, TRUE)) =>
              /\ phase' = "reported"
              /\ pass_count' = 0 /\ fail_count' = 0
              /\ error_count' = 0 /\ skip_count' = 0
              /\ total_count([pass_count |-> pass_count', fail_count |-> fail_count', error_count |-> error_count', skip_count |-> skip_count']) = 0
              /\ test_groups' = <<>>
              /\ report_file' # None
              /\ report_file' # ""]_vars

\* the empty run has returned with its report written
C15_Witness ==
    /\ phase = "reported"
    /\ testsRun = 0
    /\ result = <<>>
    /\ test_groups = <<>>
    /\ report_file = DefaultTemplateText
    /\ real_stderr = ElapsedLine

\* C16: between the startTest and the stopTest of a test exactly one outcome
\* is appended to result, never zero and never more than one.
C16_OneOutcomePerTest ==
    [][StopTest => Len(result) = windowStart + 1]_vars

IsPrefix(s, t) == Len(s) <= Len(t) /\ SubSeq(t, 1, Len(s)) = s

\* a step of one of the four completion callbacks
CompletionStep ==
    \/ \E test \in Tests : AddSuccess(test)
    \/ \E test \in Tests, err \in ExcTexts : AddError(test, err)
    \/ \E test \in Tests, err \in ExcTexts : AddFailure(test, err)
    \/ \E test \in Tests, reason \in Reasons : AddSkip(test, reason)

\* C17: result is append-only and in completion order: every completion
\* callback appends exactly one entry at the end, and no callback changes,
\* removes or reorders an entry already in the list.
C17_AppendOnly ==
    [][/\ IsPrefix(result, result')
       /\ CompletionStep => Len(result') = Len(result) + 1
       /\ ~CompletionStep => result' = result]_vars

\* C18: the echo of startTest and of the completion callbacks goes to the
\* real error stream and never into the capture buffer: startTest leaves a
\* new, empty buffer, a completion callback leaves the buffer as it was and
\* records it without its own echo.
C18_EchoToRealStream ==
    [][/\ \A test \in Tests :
            StartTest(test) =>
                /\ bufferValue' = ""
                /\ real_stderr' = IF show_all THEN " ... " ELSE real_stderr
       /\ CompletionStep => bufferValue' = bufferValue
       /\ (CompletionStep /\ phase' = "suite") =>
            /\ LastOf(result').output = bufferValue
            /\ LET status == LastOf(result').status IN
               real_stderr' =
                 IF show_all
                 THEN CASE status = PASS -> "ok\n"
                        [] status = FAIL -> "FAIL\n"
                        [] status = ERROR -> "ERROR\n"
                        [] status = SKIP ->
                             "skipped '" \o LastOf(result').error \o "'\n"
                 ELSE CASE status = PASS -> "."
                        [] status = FAIL -> "F"
                        [] status = ERROR -> "E"
                        [] status = SKIP -> "S"]_vars

\* a verbose and a terse echo on the real stream after captured output
C18_Witness ==
    /\ Len(result) = 1
    /\ result[1].output = "a"
    /\ bufferValue = "a"
    /\ sys_stderr = "real_stderr"
    /\ real_stderr \in {"FAIL\n", "F"}

\* C19: no callback of the collector raises, whatever sequence of callbacks
\* the framework issues.
C19_NeverRaises == phase # "raised"

\* C20: the text captured in a test's window is the output of at most one
\* outcome: a completion signal that is not the first of its window, or that
\* comes outside every window, records no captured text.
C20_OutputAttributedOnce ==
    [][(CompletionStep /\ phase' = "suite"
          /\ (running = None \/ Len(result) > windowStart)) =>
            LastOf(result').output = ""]_vars

====
